---- MODULE Spec2Model ----
(***************************************************************************)
(* typed-input-forms: the validator chain (core/src/input-form-validator), *)
(* the field projection (core/src/input-form-field) and the React hook     *)
(* that holds the form state (react/src/input-form-state.hook).            *)
(*                                                                         *)
(* Specifications:                                                         *)
(*   Spec        the form state held by useInputFormState: the React state *)
(*               cells, the snapshot the closures of one render see, and   *)
(*               the operations of the state object and of the accessors;  *)
(*   MappedSpec  the same form written and read through mapped accessors;  *)
(*   AdapterSpec the same form used through adapters of adapters;          *)
(*   ChainSpec   the heap of validator chain nodes: the builder operations *)
(*               allocate nodes, Evaluate calls getFieldErrors;            *)
(*   ValidSpec   the same heap, with isFieldValid calls;                   *)
(*   FieldsSpec  the same heap, with getValidatedFields calls;             *)
(*   TypedSpec   fluent chains of typed rules (minLength, isPositive,      *)
(*               pattern, validUrl) evaluated on values of any type.       *)
(***************************************************************************)
EXTENDS Integers, Sequences, FiniteSets, TLC

VARIABLES
    nodes,          \* heap of validator nodes; reference 0 is a NoopInputFormValidator
    errors,         \* the error map returned by the latest getFieldErrors call
    formValidator,  \* hook: the memoized validator chain (a reference into nodes)
    initialValue,   \* hook: the initial form value
    stValue,        \* React state cell `value`, all queued updates applied
    stTouched,      \* React state cell `touchedFields`, all queued updates applied
    value,          \* the form value the closures of the current render see
    touchedFields,  \* the touched sequence the closures of the current render see
    lastOp,         \* the operation of the state object or of an accessor called last
    result,         \* what that call returned, or that it threw
    lastArgs,       \* the arguments of that call, for a setValue or a mapped accessor's call
    setSinceReset,  \* history: the fields setValue was invoked on since the last reset
    replaced        \* whether the updater of the latest setValue returned a new object

vars == <<nodes, errors, formValidator, initialValue, stValue, stTouched,
          value, touchedFields, lastOp, result, lastArgs, setSinceReset, replaced>>

formVars == <<formValidator, initialValue, stValue, stTouched, value,
              touchedFields, lastOp, result, lastArgs, setSinceReset, replaced>>

(***************************************************************************)
(* Bounds.                                                                 *)
(***************************************************************************)
\* number of validator nodes the builder operations may allocate
MaxNodes == 3

(***************************************************************************)
(* JavaScript values. A field value is undefined, a string (a sequence of  *)
(* characters) or a number.                                                *)
(***************************************************************************)
JsUndefined == [type |-> "undefined"]
Str(s) == [type |-> "string", v |-> s]
Num(n) == [type |-> "number", v |-> n]

TypeOf(fieldValue) == fieldValue.type

Fields == {"x", "y"}

\* the values a field of the form may hold
ValuesOf(field) ==
    IF field = "x"
    THEN {JsUndefined, Str(<<>>), Str(<<" ">>), Str(<<"a">>), Num(42)}
    ELSE {JsUndefined, Str(<<"a">>)}

AllFieldValues == UNION {ValuesOf(f) : f \in Fields}

FormValues == {v \in [Fields -> AllFieldValues] : \A f \in Fields : v[f] \in ValuesOf(f)}

\* an error map: field name -> message, for a subset of the fields
EmptyMap == [f \in {} |-> ""]
keysOf(object) == DOMAIN object
MapSet(map, field, error) == [f \in (DOMAIN map) \cup {field} |-> IF f = field THEN error ELSE map[f]]

includes(seq, e) == \E i \in 1..Len(seq) : seq[i] = e

IsWhitespace(c) == c \in {" ", "\t", "\n"}

RECURSIVE TrimStart(_)
TrimStart(s) == IF s # <<>> /\ IsWhitespace(Head(s)) THEN TrimStart(Tail(s)) ELSE s

RECURSIVE TrimEnd(_)
TrimEnd(s) == IF s # <<>> /\ IsWhitespace(s[Len(s)]) THEN TrimEnd(SubSeq(s, 1, Len(s) - 1)) ELSE s

\* String.prototype.trim
Trim(s) == TrimEnd(TrimStart(s))

(***************************************************************************)
(* Field validators. A validator is {error, validate}; validate is one of  *)
(* the closures the builders create, named by `fn`, with the variables it  *)
(* captured in `env`, behind the typeof guard of appendStringValidator     *)
(* (guard = "string") or appendNumberValidator (guard = "number").         *)
(***************************************************************************)
\* what a closure captured: `min` of minLength / greaterThan, `regExp` of pattern
NoEnv == [min |-> 0, regExp |-> <<>>]

\* a closure that captures nothing
Closure(fn) == [fn |-> fn, env |-> NoEnv]

\* gating predicates a caller passes to when
Predicates == {"yDefined"}

Predicate(p, formValue) ==
    CASE p = "yDefined" -> formValue["y"] # JsUndefined

\* new RegExp(pattern) for a string pattern over literal characters, `.` and
\* groups: a SyntaxError is thrown for an unterminated group or an unmatched `)`
RECURSIVE GroupDepth(_, _)
GroupDepth(pattern, depth) ==
    IF pattern = <<>> \/ depth < 0
    THEN depth
    ELSE GroupDepth(Tail(pattern),
                    CASE Head(pattern) = "(" -> depth + 1
                      [] Head(pattern) = ")" -> depth - 1
                      [] OTHER -> depth)

NewRegExp(pattern) ==
    IF GroupDepth(pattern, 0) # 0
    THEN [threw |-> TRUE, regExp |-> <<>>]
    ELSE [threw |-> FALSE, regExp |-> pattern]

\* regExp.test(str): the pattern matches somewhere in str; `.` matches every
\* character but a line terminator
RegExpTest(regExp, str) ==
    LET atoms == SelectSeq(regExp, LAMBDA c : c \notin {"(", ")"})
    IN  \E offset \in 0..(Len(str) - Len(atoms)) :
            \A i \in 1..Len(atoms) :
                IF atoms[i] = "."
                THEN str[offset + i] \notin {"\n", "\r"}
                ELSE str[offset + i] = atoms[i]

IsAlpha(c) == c \in {"a", "b", "h", "p", "s", "t"}

\* new URL(str) without a base: a TypeError is thrown when str has no scheme
\* (a letter, then letters, up to the first `:`) or when an http(s) URL has an
\* empty host; `protocol` is the scheme (the part before the `:`)
NewURL(str) ==
    LET colons == {i \in 1..Len(str) : str[i] = ":"}
        colon == IF colons = {} THEN 0 ELSE CHOOSE i \in colons : \A j \in colons : i <= j
        scheme == SubSeq(str, 1, colon - 1)
        rest == SubSeq(str, colon + 1, Len(str))
        special == scheme \in {<<"h", "t", "t", "p">>, <<"h", "t", "t", "p", "s">>}
        host == SelectSeq(rest, LAMBDA c : c \notin {"/", "\\"})
    IN  IF \/ colon <= 1
           \/ \E i \in 1..Len(scheme) : ~IsAlpha(scheme[i])
           \/ (special /\ host = <<>>)
        THEN [threw |-> TRUE, protocol |-> <<>>]
        ELSE [threw |-> FALSE, protocol |-> scheme]

ValidateFn(fn, env, fieldValue, formValue) ==
    CASE fn = "notUndefined" -> fieldValue # JsUndefined
      [] fn = "notBlank" -> Trim(fieldValue.v) # <<>>
      [] fn = "equalsY" -> fieldValue = formValue["y"]
      [] fn = "minLength" -> Len(fieldValue.v) >= env.min
      [] fn = "greaterThan" -> fieldValue.v > env.min
      [] fn = "regExpTest" -> RegExpTest(env.regExp, fieldValue.v)
      [] fn = "validUrl" ->
            LET url == NewURL(fieldValue.v)
            IN  IF url.threw   \* catch (_) { return false; }
                THEN FALSE
                ELSE url.protocol \in {<<"h", "t", "t", "p">>, <<"h", "t", "t", "p", "s">>}

Validate(validator, fieldValue, formValue) ==
    CASE validator.guard = "string" ->
            TypeOf(fieldValue) = "string"
                /\ ValidateFn(validator.fn, validator.env, fieldValue, formValue)
      [] validator.guard = "number" ->
            TypeOf(fieldValue) = "number"
                /\ ValidateFn(validator.fn, validator.env, fieldValue, formValue)
      [] OTHER -> ValidateFn(validator.fn, validator.env, fieldValue, formValue)

(***************************************************************************)
(* The node heap. A reference is 0 (a NoopInputFormValidator: every        *)
(* instance behaves alike and holds no state) or an index into the heap.   *)
(***************************************************************************)
ChildInputFormValidator(validatedField, validator, parent) ==
    [kind |-> "child", validatedField |-> validatedField, validator |-> validator,
     parent |-> parent, predicate |-> "-", conditionalValidator |-> 0]

ConditionalInputFormValidator(predicate, conditionalValidator, parent) ==
    [kind |-> "conditional", validatedField |-> "-",
     validator |-> [error |-> "", guard |-> "none", fn |-> "-", env |-> NoEnv],
     parent |-> parent, predicate |-> predicate,
     conditionalValidator |-> conditionalValidator]

Refs(ns) == 0..Len(ns)

RECURSIVE isFieldValid(_, _, _, _)
RECURSIVE getValidatedFields(_, _)
RECURSIVE getFieldErrors(_, _, _, _)

(***************************************************************************)
(* NoopInputFormValidator                                                  *)
(***************************************************************************)
NoopIsFieldValid(field, formValue) == TRUE

NoopGetValidatedFields == <<>>

\* mutant: one map object shared by all calls, `return this.fieldErrors`
NoopGetFieldErrorsShared(returned) == returned

\* `return {}`: a new object on every call. `returned` is the map object the
\* previous call handed out (and the chain then filled in); the code never
\* reads it.
NoopGetFieldErrors(returned) == EmptyMap

(***************************************************************************)
(* ChildInputFormValidator                                                 *)
(***************************************************************************)
isValidatedField(node, field) == node.validatedField = field

\* mutant: the rule is applied whatever field is asked for
ChildIsFieldValidAnyField(ns, node, field, formValue) ==
    IF ~isFieldValid(ns, node.parent, field, formValue)
    THEN FALSE
    ELSE Validate(node.validator, formValue[node.validatedField], formValue)

ChildIsFieldValid(ns, node, field, formValue) ==
    IF ~isFieldValid(ns, node.parent, field, formValue)
    THEN FALSE
    ELSE IF ~isValidatedField(node, field)
    THEN TRUE
    ELSE Validate(node.validator, formValue[field], formValue)

\* mutant: the field is appended without the includes test
ChildGetValidatedFieldsAlwaysAppend(ns, node) ==
    Append(getValidatedFields(ns, node.parent), node.validatedField)

ChildGetValidatedFields(ns, node) ==
    LET validatedFields == getValidatedFields(ns, node.parent)
    IN  IF includes(validatedFields, node.validatedField)
        THEN validatedFields
        ELSE Append(validatedFields, node.validatedField)

\* mutant: no test for an error the parent already reported, the last rule wins
ChildGetFieldErrorsLastWins(ns, node, formValue, returned) ==
    LET fieldErrors == getFieldErrors(ns, node.parent, formValue, returned)
    IN  IF ~Validate(node.validator, formValue[node.validatedField], formValue)
        THEN MapSet(fieldErrors, node.validatedField, node.validator.error)
        ELSE fieldErrors

ChildGetFieldErrors(ns, node, formValue, returned) ==
    LET fieldErrors == getFieldErrors(ns, node.parent, formValue, returned)
    IN  IF node.validatedField \in keysOf(fieldErrors)
        THEN fieldErrors
        ELSE IF ~Validate(node.validator, formValue[node.validatedField], formValue)
        THEN MapSet(fieldErrors, node.validatedField, node.validator.error)
        ELSE fieldErrors

(***************************************************************************)
(* ConditionalInputFormValidator                                           *)
(***************************************************************************)
getConditionalValidatedFields(ns, node) == getValidatedFields(ns, node.conditionalValidator)

\* forEach(validatedField => if (!validatedFields.includes(..)) push(..))
RECURSIVE PushMissing(_, _)
PushMissing(validatedFields, more) ==
    IF more = <<>>
    THEN validatedFields
    ELSE PushMissing(IF includes(validatedFields, Head(more))
                     THEN validatedFields
                     ELSE Append(validatedFields, Head(more)),
                     Tail(more))

\* mutant: the nested chain is asked without testing the predicate
ConditionalIsFieldValidUngated(ns, node, field, formValue) ==
    IF ~isFieldValid(ns, node.parent, field, formValue)
    THEN FALSE
    ELSE isFieldValid(ns, node.conditionalValidator, field, formValue)

ConditionalIsFieldValid(ns, node, field, formValue) ==
    IF ~isFieldValid(ns, node.parent, field, formValue)
    THEN FALSE
    ELSE IF Predicate(node.predicate, formValue)
    THEN isFieldValid(ns, node.conditionalValidator, field, formValue)
    ELSE TRUE

ConditionalGetValidatedFields(ns, node) ==
    PushMissing(getValidatedFields(ns, node.parent), getConditionalValidatedFields(ns, node))

\* mutant: the nested errors are merged without asking the predicate
ConditionalGetFieldErrorsUngated(ns, node, formValue, returned) ==
    LET fieldErrors == getFieldErrors(ns, node.parent, formValue, returned)
        existingFieldsWithErrors == keysOf(fieldErrors)
        conditionalFieldErrors ==
            getFieldErrors(ns, node.conditionalValidator, formValue, fieldErrors)
    IN  [f \in existingFieldsWithErrors \cup keysOf(conditionalFieldErrors) |->
            IF f \in existingFieldsWithErrors
            THEN fieldErrors[f]
            ELSE conditionalFieldErrors[f]]

\* mutant: a nested error overwrites the parent's message for the same field
ConditionalGetFieldErrorsNestedWins(ns, node, formValue, returned) ==
    LET fieldErrors == getFieldErrors(ns, node.parent, formValue, returned)
        existingFieldsWithErrors == keysOf(fieldErrors)
    IN  IF ~Predicate(node.predicate, formValue)
        THEN fieldErrors
        ELSE LET conditionalFieldErrors ==
                     getFieldErrors(ns, node.conditionalValidator, formValue, fieldErrors)
             IN  [f \in existingFieldsWithErrors \cup keysOf(conditionalFieldErrors) |->
                     IF f \in keysOf(conditionalFieldErrors)
                     THEN conditionalFieldErrors[f]
                     ELSE fieldErrors[f]]

ConditionalGetFieldErrors(ns, node, formValue, returned) ==
    LET fieldErrors == getFieldErrors(ns, node.parent, formValue, returned)
        existingFieldsWithErrors == keysOf(fieldErrors)
        conditionalFields == getConditionalValidatedFields(ns, node)
    IN  IF (\A i \in 1..Len(conditionalFields) : conditionalFields[i] \in existingFieldsWithErrors)
           \/ ~Predicate(node.predicate, formValue)
        THEN fieldErrors
        ELSE LET conditionalFieldErrors ==
                     getFieldErrors(ns, node.conditionalValidator, formValue, fieldErrors)
             IN  [f \in existingFieldsWithErrors \cup keysOf(conditionalFieldErrors) |->
                     IF f \in existingFieldsWithErrors
                     THEN fieldErrors[f]
                     ELSE conditionalFieldErrors[f]]

(***************************************************************************)
(* InputFormValidator: the three abstract operations, dispatched on the    *)
(* class of the node a reference denotes.                                  *)
(***************************************************************************)
isFieldValid(ns, ref, field, formValue) ==
    IF ref = 0
    THEN NoopIsFieldValid(field, formValue)
    ELSE IF ns[ref].kind = "child"
    THEN ChildIsFieldValid(ns, ns[ref], field, formValue)
    ELSE ConditionalIsFieldValid(ns, ns[ref], field, formValue)

getValidatedFields(ns, ref) ==
    IF ref = 0
    THEN NoopGetValidatedFields
    ELSE IF ns[ref].kind = "child"
    THEN ChildGetValidatedFields(ns, ns[ref])
    ELSE ConditionalGetValidatedFields(ns, ns[ref])

getFieldErrors(ns, ref, formValue, returned) ==
    IF ref = 0
    THEN NoopGetFieldErrors(returned)
    ELSE IF ns[ref].kind = "child"
    THEN ChildGetFieldErrors(ns, ns[ref], formValue, returned)
    ELSE ConditionalGetFieldErrors(ns, ns[ref], formValue, returned)

(***************************************************************************)
(* InputFormValidator: the builder operations. Each returns the heap with  *)
(* the new node allocated; `this` is left as it is.                        *)
(***************************************************************************)
\* mutant: the rule is stored in `this` (the old node moves behind it) and
\* `this` is returned
appendFieldValidatorInPlace(ns, this, field, validator) ==
    IF this = 0
    THEN Append(ns, ChildInputFormValidator(field, validator, this))
    ELSE Append([ns EXCEPT ![this] = ChildInputFormValidator(field, validator, Len(ns) + 1)],
                ns[this])

appendFieldValidator(ns, this, field, validator) ==
    Append(ns, ChildInputFormValidator(field, validator, this))

appendStringValidator(ns, this, field, error, validate) ==
    appendFieldValidator(ns, this, field,
        [error |-> error, guard |-> "string", fn |-> validate.fn, env |-> validate.env])

appendNumberValidator(ns, this, field, error, validate) ==
    appendFieldValidator(ns, this, field,
        [error |-> error, guard |-> "number", fn |-> validate.fn, env |-> validate.env])

require(ns, this, field, error, validate) ==
    appendFieldValidator(ns, this, field,
        [error |-> error, guard |-> "none", fn |-> validate.fn, env |-> validate.env])

requireWithNoError(ns, this, field, validate) ==
    appendFieldValidator(ns, this, field,
        [error |-> "", guard |-> "none", fn |-> validate.fn, env |-> validate.env])

\* mutant: the message is dropped
notUndefinedDropsError(ns, this, field, error) ==
    appendFieldValidator(ns, this, field,
        [error |-> "", guard |-> "none", fn |-> "notUndefined", env |-> NoEnv])

notUndefined(ns, this, field, error) ==
    appendFieldValidator(ns, this, field,
        [error |-> error, guard |-> "none", fn |-> "notUndefined", env |-> NoEnv])

notUndefinedWithNoError(ns, this, field) == notUndefined(ns, this, field, "")

notBlank(ns, this, field, error) ==
    appendStringValidator(ns, this, field, error, Closure("notBlank"))

\* mutant: `str.length > min`
minLengthExclusive(ns, this, field, error, min) ==
    appendStringValidator(ns, this, field, error,
        [fn |-> "minLength", env |-> [NoEnv EXCEPT !.min = min + 1]])

minLength(ns, this, field, error, min) ==
    appendStringValidator(ns, this, field, error,
        [fn |-> "minLength", env |-> [NoEnv EXCEPT !.min = min]])

greaterThan(ns, this, field, min, error) ==
    appendNumberValidator(ns, this, field, error,
        [fn |-> "greaterThan", env |-> [NoEnv EXCEPT !.min = min]])

isPositive(ns, this, field, error) == greaterThan(ns, this, field, 0, error)

\* pattern with a string pattern; called when new RegExp(pattern) returned
pattern(ns, this, field, regExp, error) ==
    appendStringValidator(ns, this, field, error,
        [fn |-> "regExpTest", env |-> [NoEnv EXCEPT !.regExp = regExp]])

validUrl(ns, this, field, error) ==
    appendStringValidator(ns, this, field, error, Closure("validUrl"))

\* subValidator is what validatorBuilder(new NoopInputFormValidator()) returns:
\* a chain rooted at a no-op root
when(ns, this, predicate, subValidator) ==
    Append(ns, ConditionalInputFormValidator(predicate, subValidator, this))

(***************************************************************************)
(* useInputFormState. React keeps the state cells (stValue, stTouched); a  *)
(* render copies them into the snapshot (value, touchedFields, errors)     *)
(* that the state object and the field projection of that render close     *)
(* over. A component may be rendered again at any time.                    *)
(***************************************************************************)
\* outcome of a call: it returned nothing, returned a value, or threw
Void == [threw |-> FALSE, returned |-> <<>>]
Returned(v) == [threw |-> FALSE, returned |-> <<v>>]
Threw == [threw |-> TRUE, returned |-> <<>>]

\* errors[field] of a JavaScript object: undefined when the key is absent
ErrorOf(errs, field) == IF field \in keysOf(errs) THEN Str(errs[field]) ELSE JsUndefined

\* keysOf(errors).find(field => errors[field] !== undefined) !== undefined
hasError(errs) == \E field \in keysOf(errs) : ErrorOf(errs, field) # JsUndefined

\* the validator chains a caller's validationBuilder may build:
\*   1: notBlank('x', 'E1')
\*   2: notBlank('x', 'E1').notUndefinedWithNoError('y')
\*   3: when(yDefined, b => b.notBlank('x', 'E1'))
\*   4: notUndefined('y', 'E2')
FormNodes ==
    LET n1 == notBlank(<<>>, 0, "x", "E1")
        n2 == notUndefinedWithNoError(n1, 1, "y")
        n3 == when(n2, 0, "yDefined", 1)
    IN  notUndefined(n3, 0, "y", "E2")

FormValidators == {0, 1, 2, 3, 4}

InitialValues == {[x |-> Str(<<>>), y |-> JsUndefined], [x |-> Str(<<"a">>), y |-> Str(<<"a">>)]}

Init ==
    /\ nodes = FormNodes
    /\ formValidator \in FormValidators
    /\ initialValue \in InitialValues
    /\ stValue = initialValue
    /\ stTouched = <<>>
    /\ value = initialValue
    /\ touchedFields = <<>>
    /\ errors = getFieldErrors(nodes, formValidator, initialValue, EmptyMap)
    /\ lastOp = "init"
    /\ result = Void
    /\ lastArgs = <<>>
    /\ setSinceReset = {}
    /\ replaced = FALSE

\* a render of the component: lines 25-45
Render ==
    /\ value' = stValue
    /\ touchedFields' = stTouched
    /\ errors' = getFieldErrors(nodes, formValidator, stValue, errors)
    /\ UNCHANGED <<nodes, formValidator, initialValue, stValue, stTouched, lastOp, result,
                   lastArgs, setSinceReset, replaced>>

\* mutant: the new value is spread from the snapshot the projection was built from
setValueUpdaterOnSnapshot(prevState, name, fieldValue) ==
    IF value[name] = fieldValue
    THEN value
    ELSE [value EXCEPT ![name] = fieldValue]

\* the updater passed to setFormValue, applied by React to the latest state
setValueUpdater(prevState, name, fieldValue) ==
    IF prevState[name] = fieldValue
    THEN prevState
    ELSE [prevState EXCEPT ![name] = fieldValue]

\* mutant: the updater spreads prevState without the equality test
setValueUpdaterCopiesAlways(prevState, name, fieldValue) == TRUE

\* whether the updater returns a new object, `{...prevState, [name]: fieldValue}`,
\* and not prevState itself
setValueUpdaterCopies(prevState, name, fieldValue) == prevState[name] # fieldValue

\* mutant: the accessor appends without the includes test
touchAlways(touched, latest, name) == Append(touched, name)

\* the touched sequence an accessor of the current projection stores
touch(touched, latest, name) ==
    IF ~includes(touched, name)
    THEN Append(touched, name)
    ELSE latest

\* the body of the accessor's setValue
setValue(name, fieldValue) ==
    /\ stValue' = setValueUpdater(stValue, name, fieldValue)
    /\ stTouched' = touch(touchedFields, stTouched, name)
    /\ setSinceReset' = setSinceReset \cup {name}
    /\ replaced' = setValueUpdaterCopies(stValue, name, fieldValue)
    /\ result' = Void
    /\ UNCHANGED <<nodes, errors, formValidator, initialValue, value, touchedFields>>

\* fields[name].setValue(fieldValue)
SetValue(name, fieldValue) ==
    /\ setValue(name, fieldValue)
    /\ lastOp' = "setValue"
    /\ lastArgs' = <<name, fieldValue>>

\* the body of the accessor's markAsTouched
markAsTouched(name) ==
    /\ stTouched' = touch(touchedFields, stTouched, name)
    /\ result' = Void
    /\ UNCHANGED <<nodes, errors, formValidator, initialValue, stValue, value, touchedFields,
                   setSinceReset, replaced>>

\* fields[name].markAsTouched()
MarkAsTouched(name) ==
    /\ markAsTouched(name)
    /\ lastOp' = "markAsTouched"
    /\ lastArgs' = <<>>

\* validatedFieldsRef.current
validatedFieldsRef == getValidatedFields(nodes, formValidator)

untouchedValidatedFields(touched) ==
    SelectSeq(validatedFieldsRef, LAMBDA field : ~includes(touched, field))

\* state.touchValidatedFields()
TouchValidatedFields ==
    /\ stTouched' = IF Len(untouchedValidatedFields(touchedFields)) = 0
                    THEN stTouched
                    ELSE touchedFields \o untouchedValidatedFields(touchedFields)
    /\ lastOp' = "touchValidatedFields"
    /\ result' = Void
    /\ lastArgs' = <<>>
    /\ UNCHANGED <<nodes, errors, formValidator, initialValue, stValue, value, touchedFields,
                   setSinceReset, replaced>>

\* mutant: reset restores the value and forgets setTouchedFields([])
ResetValueOnly ==
    /\ stValue' = initialValue
    /\ lastOp' = "reset"
    /\ result' = Void
    /\ lastArgs' = <<>>
    /\ setSinceReset' = {}
    /\ replaced' = FALSE
    /\ UNCHANGED <<nodes, errors, formValidator, initialValue, stTouched, value, touchedFields>>

\* state.reset()
Reset ==
    /\ stValue' = initialValue
    /\ stTouched' = <<>>
    /\ lastOp' = "reset"
    /\ result' = Void
    /\ lastArgs' = <<>>
    /\ setSinceReset' = {}
    /\ replaced' = FALSE
    /\ UNCHANGED <<nodes, errors, formValidator, initialValue, value, touchedFields>>

\* mutant: a truthiness test, `if (!errors[field])`, lets an empty message pass
getValidValueTruthy(errs, formValue) ==
    IF ~(\E field \in keysOf(errs) : ErrorOf(errs, field) \notin {JsUndefined, Str("")})
    THEN Returned(formValue)
    ELSE Threw

\* state.getValidValue()
getValidValue(errs, formValue) ==
    IF ~hasError(errs)
    THEN Returned(formValue)
    ELSE Threw

GetValidValue ==
    /\ lastOp' = "getValidValue"
    /\ result' = getValidValue(errors, value)
    /\ lastArgs' = <<>>
    /\ UNCHANGED <<nodes, errors, formValidator, initialValue, stValue, stTouched, value,
                   touchedFields, setSinceReset, replaced>>

(***************************************************************************)
(* The getters of the state object and of a field accessor: they read the  *)
(* snapshot of the render that built them.                                 *)
(***************************************************************************)
untouched == Len(touchedFields) = 0

\* mutant: a truthiness test, an empty message does not count
invalidTruthy ==
    \E field \in keysOf(errors) : ErrorOf(errors, field) \notin {JsUndefined, Str("")}

invalid == hasError(errors)

\* mutant: the touched test is missing
showsAnyErrorsUntouched ==
    \E field \in keysOf(errors) : ErrorOf(errors, field) # JsUndefined

showsAnyErrors ==
    \E field \in keysOf(errors) :
        ErrorOf(errors, field) # JsUndefined /\ includes(touchedFields, field)

getValue(name) == value[name]

isTouched(name) == includes(touchedFields, name)

isInvalid(name) == ErrorOf(errors, name) # JsUndefined

isValid(name) == ErrorOf(errors, name) = JsUndefined

\* mutant: the touched test is missing
isShowErrorUntouched(name) == ErrorOf(errors, name) # JsUndefined

isShowError(name) == includes(touchedFields, name) /\ ErrorOf(errors, name) # JsUndefined

\* mutant: the entry is returned as it is
getErrorMessageRaw(name) == ErrorOf(errors, name)

getErrorMessage(name) ==
    IF ErrorOf(errors, name) = Str("") THEN JsUndefined ELSE ErrorOf(errors, name)

\* what the getters of the accessor of `name` return
InputFormField(name) ==
    [getValue |-> getValue(name),
     isTouched |-> isTouched(name),
     isInvalid |-> isInvalid(name),
     isValid |-> isValid(name),
     isShowError |-> isShowError(name),
     getErrorMessage |-> getErrorMessage(name)]

\* a component reads the getters of the state object and of the accessors of
\* the projection while it renders its inputs: the calls return, nothing changes
ReadGetters ==
    /\ lastOp' = "read"
    /\ result' = Returned([untouched |-> untouched,
                           invalid |-> invalid,
                           showsAnyErrors |-> showsAnyErrors,
                           fields |-> [name \in Fields |-> InputFormField(name)]])
    /\ lastArgs' = <<>>
    /\ UNCHANGED <<nodes, errors, formValidator, initialValue, stValue, stTouched, value,
                   touchedFields, setSinceReset, replaced>>

(***************************************************************************)
(* MappedInputFormField: fields[name].map(mapper, inverseMapper). The      *)
(* adapter delegates to the accessor of the projection it was made from.   *)
(***************************************************************************)
\* the (mapper, inverseMapper) pairs a caller passes to map:
\*   identity:         (v => v, v => v)
\*   trimmed:          (v => v, v => v.trim()), for a string input
\*   emptyAsUndefined: (v => v === undefined ? '' : v, v => v === '' ? undefined : v)
\*   async:            (v => Promise.resolve(v), v => v)
Mappers == {"identity", "trimmed"}

\* Promise.resolve(v)
PromiseResolve(v) == [type |-> "promise", v |-> v]

isPromise(p) == TypeOf(p) = "promise"

mapper(m, fieldValue) ==
    CASE m = "emptyAsUndefined" -> IF fieldValue = JsUndefined THEN Str(<<>>) ELSE fieldValue
      [] m = "async" -> PromiseResolve(fieldValue)
      [] OTHER -> fieldValue

inverseMapper(m, mappedValue) ==
    CASE m = "trimmed" -> Str(Trim(mappedValue.v))
      [] m = "emptyAsUndefined" -> IF mappedValue = Str(<<>>) THEN JsUndefined ELSE mappedValue
      [] OTHER -> mappedValue

\* the values a caller may pass to the adapter's setValue
MappedValuesOf(m, name) ==
    IF m = "trimmed"
    THEN {v \in ValuesOf(name) : TypeOf(v) = "string"}
    ELSE ValuesOf(name)

\* mutant: the value is passed on without the inverse mapper
MappedSetValueArgRaw(m, mappedValue) == mappedValue

\* what the adapter's setValue hands to the delegate
MappedSetValueArg(m, mappedValue) == inverseMapper(m, mappedValue)

\* fields[name].map(mapper, inverseMapper).setValue(mappedValue)
MappedSetValue(name, m, mappedValue) ==
    /\ setValue(name, MappedSetValueArg(m, mappedValue))
    /\ lastOp' = "mappedSetValue"
    /\ lastArgs' = <<name, m, mappedValue>>

\* the adapter's getValue; the delegate's getValue never returns a promise
MappedGetValueOf(name, m) == mapper(m, getValue(name))

\* fields[name].map(mapper, inverseMapper).getValue()
MappedGetValue(name, m) ==
    /\ lastOp' = "mappedGetValue"
    /\ result' = Returned(MappedGetValueOf(name, m))
    /\ lastArgs' = <<name, m>>
    /\ UNCHANGED <<nodes, errors, formValidator, initialValue, stValue, stTouched, value,
                   touchedFields, setSinceReset, replaced>>

(***************************************************************************)
(* Adapters of adapters: fields[name].map(f1, g1).map(f2, g2). An adapter  *)
(* is the sequence of the mapper pairs between the accessor and the        *)
(* caller, innermost first; the empty sequence stands for the accessor.    *)
(***************************************************************************)
\* the accessor's map: new MappedInputFormField(field, mapper, inversMapper)
AccessorMap(m) == <<m>>

\* mutant: the new adapter wraps the delegate of this adapter
AdapterMapOnDelegate(adapter, m) == Append(SubSeq(adapter, 1, Len(adapter) - 1), m)

\* the adapter's map: new MappedInputFormField(this, mapper, inversMapper)
AdapterMap(adapter, m) == Append(adapter, m)

\* this.delegate
Delegate(adapter) == SubSeq(adapter, 1, Len(adapter) - 1)

\* the adapter fields[name].map(ms[1]).map(ms[2])... denotes
RECURSIVE MapCalls(_)
MapCalls(ms) ==
    IF Len(ms) = 1
    THEN AccessorMap(ms[1])
    ELSE AdapterMap(MapCalls(SubSeq(ms, 1, Len(ms) - 1)), ms[Len(ms)])

\* the sequences of map calls a caller makes; each inverse mapper returns what
\* the layer below accepts
MapCallSeqs ==
    {<<"trimmed">>, <<"emptyAsUndefined">>, <<"async">>,
     <<"emptyAsUndefined", "trimmed">>, <<"async", "emptyAsUndefined">>}

\* the values a caller may pass to the setValue of the adapter of these calls
AdapterValuesOf(ms, name) ==
    CASE ms[Len(ms)] = "trimmed" -> {v \in ValuesOf(name) : TypeOf(v) = "string"}
      [] ms[Len(ms)] = "emptyAsUndefined" -> ValuesOf(name) \ {JsUndefined}
      [] OTHER -> ValuesOf(name)

\* promise.then(mapper)
Then(promise, m) ==
    IF isPromise(mapper(m, promise.v))
    THEN mapper(m, promise.v)
    ELSE PromiseResolve(mapper(m, promise.v))

RECURSIVE AdapterGetValueOf(_, _)
AdapterGetValueOf(name, adapter) ==
    IF adapter = <<>>
    THEN getValue(name)
    ELSE LET delegateValue == AdapterGetValueOf(name, Delegate(adapter))
         IN  IF isPromise(delegateValue)
             THEN Then(delegateValue, adapter[Len(adapter)])
             ELSE mapper(adapter[Len(adapter)], delegateValue)

\* the value the accessor's setValue receives from adapter.setValue(mappedValue)
RECURSIVE AdapterSetValueArg(_, _)
AdapterSetValueArg(adapter, mappedValue) ==
    IF adapter = <<>>
    THEN mappedValue
    ELSE AdapterSetValueArg(Delegate(adapter),
                            inverseMapper(adapter[Len(adapter)], mappedValue))

RECURSIVE AdapterGetErrorMessage(_, _)
AdapterGetErrorMessage(name, adapter) ==
    IF adapter = <<>>
    THEN getErrorMessage(name)
    ELSE AdapterGetErrorMessage(name, Delegate(adapter))

RECURSIVE AdapterIsInvalid(_, _)
AdapterIsInvalid(name, adapter) ==
    IF adapter = <<>> THEN isInvalid(name) ELSE AdapterIsInvalid(name, Delegate(adapter))

RECURSIVE AdapterIsValid(_, _)
AdapterIsValid(name, adapter) ==
    IF adapter = <<>> THEN isValid(name) ELSE AdapterIsValid(name, Delegate(adapter))

RECURSIVE AdapterIsShowError(_, _)
AdapterIsShowError(name, adapter) ==
    IF adapter = <<>> THEN isShowError(name) ELSE AdapterIsShowError(name, Delegate(adapter))

RECURSIVE AdapterIsTouched(_, _)
AdapterIsTouched(name, adapter) ==
    IF adapter = <<>> THEN isTouched(name) ELSE AdapterIsTouched(name, Delegate(adapter))

\* fields[name].map(..).map(..).setValue(mappedValue)
AdapterSetValue(name, ms, mappedValue) ==
    /\ setValue(name, AdapterSetValueArg(MapCalls(ms), mappedValue))
    /\ lastOp' = "adapterSetValue"
    /\ lastArgs' = <<name, ms, mappedValue>>

\* fields[name].map(..).map(..).markAsTouched()
AdapterMarkAsTouched(name, ms) ==
    /\ markAsTouched(name)
    /\ lastOp' = "adapterMarkAsTouched"
    /\ lastArgs' = <<name, ms>>

\* fields[name].map(..).map(..).getValue()
AdapterGetValue(name, ms) ==
    /\ lastOp' = "adapterGetValue"
    /\ result' = Returned(AdapterGetValueOf(name, MapCalls(ms)))
    /\ lastArgs' = <<name, ms>>
    /\ UNCHANGED <<nodes, errors, formValidator, initialValue, stValue, stTouched, value,
                   touchedFields, setSinceReset, replaced>>

\* a component reads the status getters of the adapter
AdapterReadStatus(name, ms) ==
    /\ lastOp' = "adapterReadStatus"
    /\ result' = Returned([isTouched |-> AdapterIsTouched(name, MapCalls(ms)),
                           isInvalid |-> AdapterIsInvalid(name, MapCalls(ms)),
                           isValid |-> AdapterIsValid(name, MapCalls(ms)),
                           isShowError |-> AdapterIsShowError(name, MapCalls(ms)),
                           getErrorMessage |-> AdapterGetErrorMessage(name, MapCalls(ms))])
    /\ lastArgs' = <<name, ms>>
    /\ UNCHANGED <<nodes, errors, formValidator, initialValue, stValue, stTouched, value,
                   touchedFields, setSinceReset, replaced>>

Next ==
    \/ Render
    \/ \E name \in Fields : \E fieldValue \in ValuesOf(name) : SetValue(name, fieldValue)
    \/ \E name \in Fields : MarkAsTouched(name)
    \/ TouchValidatedFields
    \/ Reset
    \/ GetValidValue
    \/ ReadGetters

Spec == Init /\ [][Next]_vars

(***************************************************************************)
(* MappedSpec: a form whose fields are written and read through mapped     *)
(* accessors, rendered again at any time, and reset.                       *)
(***************************************************************************)
MappedNext ==
    \/ Render
    \/ \E name \in Fields, m \in Mappers : \E mappedValue \in MappedValuesOf(m, name) :
            MappedSetValue(name, m, mappedValue)
    \/ \E name \in Fields, m \in Mappers : MappedGetValue(name, m)
    \/ Reset

MappedSpec == Init /\ [][MappedNext]_vars

(***************************************************************************)
(* AdapterSpec: the form, used through adapters and adapters of adapters.  *)
(***************************************************************************)
AdapterNext ==
    \/ Render
    \/ \E name \in Fields, ms \in MapCallSeqs : \E mappedValue \in AdapterValuesOf(ms, name) :
            AdapterSetValue(name, ms, mappedValue)
    \/ \E name \in Fields, ms \in MapCallSeqs : AdapterMarkAsTouched(name, ms)
    \/ \E name \in Fields, ms \in MapCallSeqs : AdapterGetValue(name, ms)
    \/ \E name \in Fields, ms \in MapCallSeqs : AdapterReadStatus(name, ms)

\* a form with the chain notBlank('x', E1).notUndefinedWithNoError('y') and
\* the initial value {x: '', y: undefined}
AdapterInit ==
    /\ Init
    /\ formValidator = 2
    /\ initialValue.y = JsUndefined

AdapterSpec == AdapterInit /\ [][AdapterNext]_vars

(***************************************************************************)
(* Properties of the form state (Spec).                                    *)
(***************************************************************************)
NoDuplicates(seq) == \A i, j \in 1..Len(seq) : seq[i] = seq[j] => i = j

IsPrefix(s, t) == Len(s) <= Len(t) /\ SubSeq(t, 1, Len(s)) = s

\* C1: getValidValue throws exactly when the error map computed for the form
\* value of the state object has at least one entry (an entry holding the
\* empty string counts), and otherwise returns that form value unchanged,
\* whatever setValue, markAsTouched, touchValidatedFields and reset calls came
\* before.
C1_GetValidValueThrowsIffErrors ==
    [][GetValidValue =>
        LET computed == getFieldErrors(nodes, formValidator, value, EmptyMap)
        IN  /\ result'.threw <=> keysOf(computed) # {}
            /\ ~result'.threw => result' = Returned(value)]_vars

\* getValidValue threw on a form whose only error entry is the empty string,
\* after the form was edited and rendered again
C1_Witness ==
    /\ lastOp = "getValidValue"
    /\ result = Threw
    /\ keysOf(errors) # {}
    /\ \A field \in keysOf(errors) : errors[field] = ""
    /\ stTouched # <<>>
    /\ value = stValue
    /\ value # initialValue

\* C2: a field accessor's setValue called with the value the field already
\* holds leaves the touched sequence as it was.
C2_SetValueSameValueKeepsTouched ==
    [][\A name \in Fields : \A fieldValue \in ValuesOf(name) :
        (SetValue(name, fieldValue) /\ value[name] = fieldValue /\ stValue[name] = fieldValue)
            => stTouched' = stTouched]_vars

\* C3: the touched sequence is append-only except on reset: over every step
\* that is not a reset, also one taken through a projection that was not
\* rebuilt since the previous call, the sequence before is a prefix of the
\* sequence after.
C3_TouchedAppendOnly ==
    [][~Reset => IsPrefix(stTouched, stTouched')]_vars

\* C4: the touched sequence never holds a field name twice, neither in the
\* state cell nor in the snapshot of a render.
C4_TouchedNoDuplicates ==
    /\ NoDuplicates(stTouched)
    /\ NoDuplicates(touchedFields)

\* every field is touched and rendered, and markAsTouched was called again
C4_Witness ==
    /\ lastOp = "markAsTouched"
    /\ Len(touchedFields) = Cardinality(Fields)
    /\ stTouched = touchedFields

\* C5: reset, after any sequence of setValue, markAsTouched and
\* touchValidatedFields calls, leaves the form value equal to the initial
\* value and the touched sequence empty, and the next render shows them.
C5_ResetRestoresInitial ==
    [][/\ Reset => (stValue' = initialValue /\ stTouched' = <<>>)
       /\ (lastOp = "reset" /\ Render) => (value' = initialValue /\ touchedFields' = <<>>)]_vars

\* reset was called on an edited, touched form: the snapshot of the render it
\* was called from still shows the edits, the state cells are restored
C5_Witness ==
    /\ lastOp = "reset"
    /\ value # initialValue
    /\ Len(touchedFields) = Cardinality(Fields)
    /\ stValue = initialValue
    /\ stTouched = <<>>

(***************************************************************************)
(* ChainSpec: building chains and evaluating them.                         *)
(***************************************************************************)
\* the builder calls a caller makes
NotBlankArgs == {[field |-> "x", error |-> "E1"]}
NotUndefinedArgs == {[field |-> "y", error |-> "E1"]}
RequireArgs == {[field |-> "x", error |-> "E2", validate |-> Closure("equalsY")]}

ChainInit ==
    /\ nodes = <<>>
    /\ errors = EmptyMap
    /\ formValidator = 0
    /\ initialValue = [f \in Fields |-> JsUndefined]
    /\ stValue = initialValue
    /\ stTouched = <<>>
    /\ value = initialValue
    /\ touchedFields = <<>>
    /\ lastOp = "init"
    /\ result = Void
    /\ lastArgs = <<>>
    /\ setSinceReset = {}
    /\ replaced = FALSE

NotBlank(this, a) ==
    /\ Len(nodes) < MaxNodes
    /\ nodes' = notBlank(nodes, this, a.field, a.error)
    /\ UNCHANGED <<errors, formVars>>

NotUndefined(this, a) ==
    /\ Len(nodes) < MaxNodes
    /\ nodes' = notUndefined(nodes, this, a.field, a.error)
    /\ UNCHANGED <<errors, formVars>>

Require(this, a) ==
    /\ Len(nodes) < MaxNodes
    /\ nodes' = require(nodes, this, a.field, a.error, a.validate)
    /\ UNCHANGED <<errors, formVars>>

When(this, predicate, subValidator) ==
    /\ Len(nodes) < MaxNodes
    /\ nodes' = when(nodes, this, predicate, subValidator)
    /\ UNCHANGED <<errors, formVars>>

\* a caller evaluates a chain: chain.getFieldErrors(formValue)
Evaluate(ref, formValue) ==
    /\ errors' = getFieldErrors(nodes, ref, formValue, errors)
    /\ UNCHANGED <<nodes, formVars>>

\* a caller asks chain.isFieldValid(field, formValue)
IsFieldValid(ref, field, formValue) ==
    /\ result' = Returned(isFieldValid(nodes, ref, field, formValue))
    /\ UNCHANGED <<nodes, errors, formValidator, initialValue, stValue, stTouched,
                   value, touchedFields, lastOp, lastArgs, setSinceReset, replaced>>

ChainNext ==
    \/ \E this \in Refs(nodes), a \in NotBlankArgs : NotBlank(this, a)
    \/ \E this \in Refs(nodes), a \in NotUndefinedArgs : NotUndefined(this, a)
    \/ \E this \in Refs(nodes), a \in RequireArgs : Require(this, a)
    \/ \E this \in Refs(nodes), p \in Predicates, sub \in Refs(nodes) : When(this, p, sub)
    \/ \E ref \in Refs(nodes), formValue \in FormValues : Evaluate(ref, formValue)

ChainSpec == ChainInit /\ [][ChainNext]_vars

(***************************************************************************)
(* ValidSpec: building chains and asking isFieldValid.                     *)
(***************************************************************************)
ValidNext ==
    \/ \E this \in Refs(nodes), a \in NotBlankArgs : NotBlank(this, a)
    \/ \E this \in Refs(nodes), a \in NotUndefinedArgs : NotUndefined(this, a)
    \/ \E this \in Refs(nodes), a \in RequireArgs : Require(this, a)
    \/ \E this \in Refs(nodes), p \in Predicates, sub \in Refs(nodes) : When(this, p, sub)
    \/ \E ref \in Refs(nodes), field \in Fields, formValue \in FormValues :
            IsFieldValid(ref, field, formValue)

ValidSpec == ChainInit /\ [][ValidNext]_vars

(***************************************************************************)
(* FieldsSpec: building chains and asking getValidatedFields.              *)
(***************************************************************************)
\* a caller asks chain.getValidatedFields()
GetValidatedFields(ref) ==
    /\ result' = Returned(getValidatedFields(nodes, ref))
    /\ UNCHANGED <<nodes, errors, formValidator, initialValue, stValue, stTouched,
                   value, touchedFields, lastOp, lastArgs, setSinceReset, replaced>>

FieldsNext ==
    \/ \E this \in Refs(nodes), a \in NotBlankArgs : NotBlank(this, a)
    \/ \E this \in Refs(nodes), a \in NotUndefinedArgs : NotUndefined(this, a)
    \/ \E this \in Refs(nodes), a \in RequireArgs : Require(this, a)
    \/ \E this \in Refs(nodes), p \in Predicates, sub \in Refs(nodes) : When(this, p, sub)
    \/ \E ref \in Refs(nodes) : GetValidatedFields(ref)

FieldsSpec == ChainInit /\ [][FieldsNext]_vars

(***************************************************************************)
(* TypedSpec: a fluent chain of typed rules on x (each builder is called   *)
(* on the chain the previous call returned), evaluated on a form value     *)
(* whose x may be of any runtime type.                                     *)
(***************************************************************************)
\* what x may hold: undefined, 'ab', 'abc', 42, 0, 'http://a', 'http://'
TypedValues ==
    {JsUndefined, Str(<<"a", "b">>), Str(<<"a", "b", "c">>), Num(42), Num(0),
     Str(<<"h", "t", "t", "p", ":", "/", "/", "a">>),
     Str(<<"h", "t", "t", "p", ":", "/", "/">>)}

TypedFormValues == {[x |-> fieldValue, y |-> JsUndefined] : fieldValue \in TypedValues}

\* the builder calls a caller makes: minLength('x', 'E1', 3), isPositive('x', 'E2'),
\* pattern('x', 'b', 'E3'), pattern('x', '(a.)', 'E3'), pattern('x', '(', 'E3'),
\* validUrl('x', 'E4')
MinLengthArgs == {[field |-> "x", error |-> "E1", min |-> 3]}
IsPositiveArgs == {[field |-> "x", error |-> "E2"]}
PatternArgs ==
    {[field |-> "x", pattern |-> regExp, error |-> "E3"] :
        regExp \in {<<"b">>, <<"(", "a", ".", ")">>, <<"(">>}}
ValidUrlArgs == {[field |-> "x", error |-> "E4"]}

TypedInit ==
    /\ nodes = <<>>
    /\ errors = EmptyMap
    /\ formValidator = 0
    /\ initialValue \in TypedFormValues
    /\ stValue = initialValue
    /\ stTouched = <<>>
    /\ value = initialValue
    /\ touchedFields = <<>>
    /\ lastOp = "init"
    /\ result = Void
    /\ lastArgs = <<>>
    /\ setSinceReset = {}
    /\ replaced = FALSE

MinLength(this, a) ==
    /\ Len(nodes) < MaxNodes
    /\ nodes' = minLength(nodes, this, a.field, a.error, a.min)
    /\ lastOp' = "build"
    /\ result' = Void
    /\ UNCHANGED <<errors, formValidator, initialValue, stValue, stTouched, value,
                   touchedFields, lastArgs, setSinceReset, replaced>>

IsPositive(this, a) ==
    /\ Len(nodes) < MaxNodes
    /\ nodes' = isPositive(nodes, this, a.field, a.error)
    /\ lastOp' = "build"
    /\ result' = Void
    /\ UNCHANGED <<errors, formValidator, initialValue, stValue, stTouched, value,
                   touchedFields, lastArgs, setSinceReset, replaced>>

\* pattern(field, pattern, error) with a string pattern: lines 204-211
Pattern(this, a) ==
    /\ Len(nodes) < MaxNodes
    /\ LET regExp == NewRegExp(a.pattern)
       IN  IF regExp.threw
           THEN /\ nodes' = nodes
                /\ result' = Threw
           ELSE /\ nodes' = pattern(nodes, this, a.field, regExp.regExp, a.error)
                /\ result' = Void
    /\ lastOp' = "build"
    /\ UNCHANGED <<errors, formValidator, initialValue, stValue, stTouched, value,
                   touchedFields, lastArgs, setSinceReset, replaced>>

ValidUrl(this, a) ==
    /\ Len(nodes) < MaxNodes
    /\ nodes' = validUrl(nodes, this, a.field, a.error)
    /\ lastOp' = "build"
    /\ result' = Void
    /\ UNCHANGED <<errors, formValidator, initialValue, stValue, stTouched, value,
                   touchedFields, lastArgs, setSinceReset, replaced>>

\* a caller evaluates a chain on the form value: getFieldErrors(value) and
\* isFieldValid('x', value)
EvaluateTyped(ref) ==
    /\ errors' = getFieldErrors(nodes, ref, value, errors)
    /\ result' = Returned(isFieldValid(nodes, ref, "x", value))
    /\ lastOp' = "evaluate"
    /\ UNCHANGED <<nodes, formValidator, initialValue, stValue, stTouched, value,
                   touchedFields, lastArgs, setSinceReset, replaced>>

TypedNext ==
    \/ \E a \in MinLengthArgs : MinLength(Len(nodes), a)
    \/ \E a \in IsPositiveArgs : IsPositive(Len(nodes), a)
    \/ \E a \in PatternArgs : Pattern(Len(nodes), a)
    \/ \E a \in ValidUrlArgs : ValidUrl(Len(nodes), a)
    \/ \E ref \in Refs(nodes) : EvaluateTyped(ref)

TypedSpec == TypedInit /\ [][TypedNext]_vars

(***************************************************************************)
(* Properties of the validator chain (ChainSpec, ValidSpec, FieldsSpec,    *)
(* TypedSpec).                                                             *)
(***************************************************************************)
\* the rules in effect on formValue along a chain, in the order the chain was
\* built: the rules of a when-block count when its predicate holds
RECURSIVE RulesInEffect(_, _, _)
RulesInEffect(ns, ref, formValue) ==
    IF ref = 0
    THEN <<>>
    ELSE IF ns[ref].kind = "child"
    THEN Append(RulesInEffect(ns, ns[ref].parent, formValue), ns[ref])
    ELSE RulesInEffect(ns, ns[ref].parent, formValue)
         \o (IF Predicate(ns[ref].predicate, formValue)
             THEN RulesInEffect(ns, ns[ref].conditionalValidator, formValue)
             ELSE <<>>)

\* the positions of the rules on `field` that fail on formValue
Failing(rules, field, formValue) ==
    {i \in 1..Len(rules) :
        /\ rules[i].validatedField = field
        /\ ~Validate(rules[i].validator, formValue[field], formValue)}

Min(S) == CHOOSE i \in S : \A j \in S : i <= j

\* C6: first rule wins: for every chain, form value and field, getFieldErrors
\* reports for the field the message of the earliest rule on that field that
\* fails on the value, and no message when none fails; a later rule's message
\* appears only when every earlier rule on the field passes.
C6_FirstRuleWins ==
    \A ref \in Refs(nodes) : \A formValue \in FormValues :
        LET rules == RulesInEffect(nodes, ref, formValue)
            fieldErrors == getFieldErrors(nodes, ref, formValue, errors)
        IN  \A field \in Fields :
                LET failing == Failing(rules, field, formValue)
                IN  IF failing = {}
                    THEN field \notin keysOf(fieldErrors)
                    ELSE /\ field \in keysOf(fieldErrors)
                         /\ fieldErrors[field] = rules[Min(failing)].validator.error

\* a chain of field rules with two rules on x that both fail on a value, with
\* different messages, was evaluated on it and reported the first message
C6_Witness ==
    \E ref \in Refs(nodes) : \E formValue \in FormValues :
        LET rules == RulesInEffect(nodes, ref, formValue)
            failing == Failing(rules, "x", formValue)
        IN  /\ \A i \in 1..Len(rules) : rules[i].parent < ref
            /\ \E i, j \in failing :
                  i < j /\ rules[i].validator.error # rules[j].validator.error
            /\ errors = getFieldErrors(nodes, ref, formValue, EmptyMap)
            /\ errors["x"] = rules[Min(failing)].validator.error

\* a string that trim() empties, or no string at all
BlankOrNoString(fieldValue) ==
    \/ TypeOf(fieldValue) # "string"
    \/ \A i \in 1..Len(fieldValue.v) : IsWhitespace(fieldValue.v[i])

\* ref is when(pred, b => b.notBlank('x', E)) appended to a chain with no rule on x
GatedNotBlank(ns, ref) ==
    /\ ref # 0
    /\ ns[ref].kind = "conditional"
    /\ ns[ref].conditionalValidator # 0
    /\ ns[ns[ref].conditionalValidator].kind = "child"
    /\ ns[ns[ref].conditionalValidator].parent = 0
    /\ ns[ns[ref].conditionalValidator].validatedField = "x"
    /\ ns[ns[ref].conditionalValidator].validator.guard = "string"
    /\ ns[ns[ref].conditionalValidator].validator.fn = "notBlank"
    /\ ~includes(getValidatedFields(ns, ns[ref].parent), "x")

\* C7: conditional gating: for when(pred, b => b.notBlank('x', E)) with no other
\* rule on x, getFieldErrors reports no error for x when pred(value) is false,
\* whatever x holds, and E when pred(value) is true and x is blank,
\* whitespace-only or not a string; isFieldValid('x', value) agrees.
C7_ConditionalGating ==
    \A ref \in Refs(nodes) : GatedNotBlank(nodes, ref) =>
        \A formValue \in FormValues :
            LET fieldErrors == getFieldErrors(nodes, ref, formValue, errors)
                E == nodes[nodes[ref].conditionalValidator].validator.error
            IN  /\ ~Predicate(nodes[ref].predicate, formValue) =>
                    /\ "x" \notin keysOf(fieldErrors)
                    /\ isFieldValid(nodes, ref, "x", formValue)
                /\ (Predicate(nodes[ref].predicate, formValue) /\ BlankOrNoString(formValue["x"])) =>
                    /\ "x" \in keysOf(fieldErrors)
                    /\ fieldErrors["x"] = E
                    /\ ~isFieldValid(nodes, ref, "x", formValue)

\* such a chain was evaluated on a value with the predicate true and x
\* whitespace-only, and the heap also holds a value with the predicate false
\* and x blank
C7_Witness ==
    \E ref \in Refs(nodes) :
        /\ GatedNotBlank(nodes, ref)
        /\ \E formValue \in FormValues :
              /\ Predicate(nodes[ref].predicate, formValue)
              /\ formValue["x"] = Str(<<" ">>)
              /\ errors = getFieldErrors(nodes, ref, formValue, EmptyMap)
              /\ "x" \in keysOf(errors)

\* the rules along a chain of field rules
RECURSIVE RulesOf(_, _)
RulesOf(ns, ref) == IF ref = 0 THEN <<>> ELSE Append(RulesOf(ns, ns[ref].parent), ns[ref])

\* ref is a chain of field rules, without a when-block
RECURSIVE FieldRulesOnly(_, _)
FieldRulesOnly(ns, ref) ==
    ref = 0 \/ (ns[ref].kind = "child" /\ FieldRulesOnly(ns, ns[ref].parent))

\* C8: for a chain of field rules (no when), isFieldValid(field, value) is true
\* iff every rule of the chain on `field` has its predicate hold on
\* (value[field], value); rules on other fields do not matter, and the empty
\* root chain answers true.
C8_IsFieldValidIffAllRulesHold ==
    \A ref \in Refs(nodes) : FieldRulesOnly(nodes, ref) =>
        \A formValue \in FormValues : \A field \in Fields :
            LET rules == RulesOf(nodes, ref)
            IN  isFieldValid(nodes, ref, field, formValue)
                <=> \A i \in 1..Len(rules) :
                        rules[i].validatedField = field
                            => Validate(rules[i].validator, formValue[field], formValue)

\* isFieldValid answered true for x on a chain of field rules whose rule on y
\* fails on the value, and the heap holds a chain with two rules on x
C8_Witness ==
    /\ result = Returned(TRUE)
    /\ \E ref \in Refs(nodes) : \E formValue \in FormValues :
          LET rules == RulesOf(nodes, ref)
          IN  /\ FieldRulesOnly(nodes, ref)
              /\ \E i, j \in 1..Len(rules) :
                    /\ rules[i].validatedField = "x"
                    /\ rules[j].validatedField = "y"
                    /\ ~Validate(rules[j].validator, formValue["y"], formValue)
              /\ isFieldValid(nodes, ref, "x", formValue)

\* C9: chain nodes are persistent: a builder call allocates a new node and
\* leaves every existing node as it was, so that getFieldErrors,
\* getValidatedFields and isFieldValid on an existing chain give the same
\* results before and after a chain is extended; and the result of
\* getFieldErrors on a chain does not depend on the maps that evaluations of
\* this or another chain returned and filled in.
C9_ChainNodesPersistent ==
    /\ [](\A ref \in Refs(nodes) : \A formValue \in FormValues :
            getFieldErrors(nodes, ref, formValue, errors)
                = getFieldErrors(nodes, ref, formValue, EmptyMap))
    /\ [][nodes' # nodes =>
            /\ Len(nodes') = Len(nodes) + 1
            /\ SubSeq(nodes', 1, Len(nodes)) = nodes
            /\ \A ref \in Refs(nodes) :
                 /\ getValidatedFields(nodes', ref) = getValidatedFields(nodes, ref)
                 /\ \A formValue \in FormValues :
                      /\ getFieldErrors(nodes', ref, formValue, errors')
                             = getFieldErrors(nodes, ref, formValue, errors)
                      /\ \A field \in Fields :
                             isFieldValid(nodes', ref, field, formValue)
                                 = isFieldValid(nodes, ref, field, formValue)]_vars

\* a chain has two extensions (siblings) and an evaluation filled a map
C9_Witness ==
    /\ errors # EmptyMap
    /\ \E ref \in 1..Len(nodes) : \E a, b \in 1..Len(nodes) :
          /\ a # b
          /\ nodes[a].parent = ref
          /\ nodes[b].parent = ref

\* C10: getFieldErrors is idempotent: a call on a chain and a value gives the
\* map the first such call gave, whatever maps earlier calls returned and had
\* filled in, and calling once more gives the same map again; for chains with
\* and without when-blocks.
C10_GetFieldErrorsIdempotent ==
    \A ref \in Refs(nodes) : \A formValue \in FormValues :
        LET first == getFieldErrors(nodes, ref, formValue, EmptyMap)
            again == getFieldErrors(nodes, ref, formValue, errors)
            onceMore == getFieldErrors(nodes, ref, formValue, again)
        IN  again = first /\ onceMore = again

\* a chain with a when-block was evaluated and its nested chain filled the map;
\* the chain gives the empty map on another value
C10_Witness ==
    \E ref \in 1..Len(nodes) :
        /\ nodes[ref].kind = "conditional"
        /\ \E formValue \in FormValues :
              /\ errors = getFieldErrors(nodes, ref, formValue, EmptyMap)
              /\ errors # EmptyMap
              /\ getFieldErrors(nodes, nodes[ref].parent, formValue, EmptyMap) = EmptyMap
        /\ \E formValue \in FormValues :
              getFieldErrors(nodes, ref, formValue, EmptyMap) = EmptyMap

\* the position in the append order of the first rule on `field`
FirstRule(rules, field) ==
    Min({i \in 1..Len(rules) : rules[i].validatedField = field})

\* C11: for every chain built of field rules only (no when), getValidatedFields
\* lists each field that some rule targets exactly once and no other field,
\* ordered by the position of the field's first rule in the append order; so a
\* second rule on a listed field leaves the list of its parent chain as it is.
C11_ValidatedFieldsOnceInFirstAppendOrder ==
    \A ref \in Refs(nodes) : FieldRulesOnly(nodes, ref) =>
        LET rules == RulesOf(nodes, ref)
            validatedFields == getValidatedFields(nodes, ref)
        IN  /\ NoDuplicates(validatedFields)
            /\ {validatedFields[i] : i \in 1..Len(validatedFields)}
                   = {rules[i].validatedField : i \in 1..Len(rules)}
            /\ \A i, j \in 1..Len(validatedFields) :
                   i < j => FirstRule(rules, validatedFields[i])
                               < FirstRule(rules, validatedFields[j])
            /\ (ref # 0 /\ includes(getValidatedFields(nodes, nodes[ref].parent),
                                     nodes[ref].validatedField))
                   => validatedFields = getValidatedFields(nodes, nodes[ref].parent)

\* getValidatedFields answered with two fields for a chain of three field
\* rules, the last of them a second rule on a field already listed
C11_Witness ==
    \E ref \in 1..Len(nodes) :
        /\ FieldRulesOnly(nodes, ref)
        /\ Len(RulesOf(nodes, ref)) = 3
        /\ includes(getValidatedFields(nodes, nodes[ref].parent), nodes[ref].validatedField)
        /\ result = Returned(getValidatedFields(nodes, ref))
        /\ Len(result.returned[1]) = 2

\* C12: builder operations never throw and chain evaluation never throws: every
\* builder call, pattern with any string pattern and validUrl included, returns
\* a new node, and evaluating a chain returns a result for every form value.
C12_BuildersAndEvaluationNeverThrow ==
    [][/\ lastOp' = "build" => (~result'.threw /\ Len(nodes') = Len(nodes) + 1)
       /\ lastOp' = "evaluate" => ~result'.threw]_vars

\* ref is the chain the call minLength(a.field, a.error, a.min) on the root returned
MinLengthAlone(ns, ref, a) ==
    /\ ref # 0
    /\ ns[ref].kind = "child"
    /\ ns[ref].parent = 0
    /\ ns[ref].validator.fn = "minLength"
    /\ ns[ref].validatedField = a.field
    /\ ns[ref].validator.error = a.error

\* C19: a typed string or number rule classifies a field value of the wrong
\* runtime type (undefined included) as invalid, without evaluating the rule's
\* predicate on it and without throwing; and minLength(f, E, n) alone is valid
\* iff value[f] is a string of length >= n: for n = 3, 'ab' is invalid, 'abc'
\* is valid and 42 is invalid.
C19_TypedRulesRejectWrongType ==
    \A ref \in 1..Len(nodes) : \A formValue \in TypedFormValues :
        LET node == nodes[ref]
            fieldValue == formValue[node.validatedField]
        IN  /\ (node.validator.guard \in {"string", "number"}
                    /\ TypeOf(fieldValue) # node.validator.guard)
                   => /\ ~Validate(node.validator, fieldValue, formValue)
                      /\ ~isFieldValid(nodes, ref, node.validatedField, formValue)
                      /\ node.validatedField \in keysOf(getFieldErrors(nodes, ref, formValue, errors))
            /\ \A a \in MinLengthArgs : MinLengthAlone(nodes, ref, a)
                   => /\ isFieldValid(nodes, ref, a.field, formValue)
                            <=> (TypeOf(fieldValue) = "string" /\ Len(fieldValue.v) >= a.min)
                      /\ getFieldErrors(nodes, ref, formValue, errors)
                            = IF TypeOf(fieldValue) = "string" /\ Len(fieldValue.v) >= a.min
                              THEN EmptyMap
                              ELSE MapSet(EmptyMap, a.field, a.error)

\* minLength('x', E, 3) alone was evaluated on x = 42 and found invalid; it is
\* valid on 'abc' and invalid on 'ab'; a number rule is on the heap as well
C19_Witness ==
    /\ lastOp = "evaluate"
    /\ result = Returned(FALSE)
    /\ value["x"] = Num(42)
    /\ \E ref \in 1..Len(nodes) :
          /\ MinLengthAlone(nodes, ref, [field |-> "x", error |-> "E1", min |-> 3])
          /\ errors = getFieldErrors(nodes, ref, value, EmptyMap)
          /\ errors = MapSet(EmptyMap, "x", nodes[ref].validator.error)
          /\ isFieldValid(nodes, ref, "x", [value EXCEPT !["x"] = Str(<<"a", "b", "c">>)])
          /\ ~isFieldValid(nodes, ref, "x", [value EXCEPT !["x"] = Str(<<"a", "b">>)])
    /\ \E ref \in 1..Len(nodes) : nodes[ref].validator.guard = "number"

(***************************************************************************)
(* Properties of the getters and of the mapped accessor (Spec, MappedSpec).*)
(***************************************************************************)
\* C13: state.invalid is true iff the error map for the form value of the
\* state object has at least one entry, i.e. iff some validated field fails
\* its rules (an empty message counts); with notBlank('x', 'E1') alone, a blank
\* x gives invalid = true and the error map {x: 'E1'}, and x = 'a' gives
\* invalid = false and an empty error map.
C13_InvalidIffErrorMapNonEmpty ==
    LET computed == getFieldErrors(nodes, formValidator, value, EmptyMap)
        validatedFields == getValidatedFields(nodes, formValidator)
    IN  /\ errors = computed
        /\ invalid <=> keysOf(computed) # {}
        /\ invalid <=> \E i \in 1..Len(validatedFields) :
                            ~isFieldValid(nodes, formValidator, validatedFields[i], value)
        /\ formValidator = 1 =>
              /\ value["x"] = Str(<<>>) => (invalid /\ errors = MapSet(EmptyMap, "x", "E1"))
              /\ value["x"] = Str(<<"a">>) => (~invalid /\ errors = EmptyMap)

\* with notBlank('x', 'E1') alone, x was emptied, the form rendered again and
\* the invalid getter read: it returned true
C13_Witness ==
    /\ lastOp = "read"
    /\ formValidator = 1
    /\ initialValue["x"] # Str(<<>>)
    /\ value["x"] = Str(<<>>)
    /\ errors = MapSet(EmptyMap, "x", "E1")
    /\ result.returned[1].invalid

\* C14: for every field accessor, in every state, isShowError() equals
\* isTouched() and isInvalid(), and isValid() equals not isInvalid().
C14_ShowErrorIsTouchedAndInvalid ==
    \A name \in Fields :
        /\ isShowError(name) <=> (isTouched(name) /\ isInvalid(name))
        /\ isValid(name) <=> ~isInvalid(name)

\* the getters were read on a form with an invalid field that is untouched (no
\* error shown) and the other field touched
C14_Witness ==
    /\ lastOp = "read"
    /\ \E name \in Fields :
          /\ result.returned[1].fields[name].isInvalid
          /\ ~result.returned[1].fields[name].isTouched
          /\ ~result.returned[1].fields[name].isShowError
    /\ \E name \in Fields : result.returned[1].fields[name].isTouched

\* C15: when a field's error-map entry is the empty string (a failing rule
\* built with notUndefinedWithNoError), getErrorMessage() returns undefined
\* while isInvalid() is true, state.invalid is true and getValidValue throws;
\* for a non-empty entry getErrorMessage() returns the entry.
C15_EmptyMessageStillInvalid ==
    /\ (formValidator = 2 /\ value["y"] = JsUndefined) => ErrorOf(errors, "y") = Str("")
    /\ \A name \in Fields :
          /\ ErrorOf(errors, name) = Str("") =>
                /\ getErrorMessage(name) = JsUndefined
                /\ isInvalid(name)
                /\ invalid
                /\ getValidValue(errors, value) = Threw
          /\ (name \in keysOf(errors) /\ errors[name] # "") =>
                getErrorMessage(name) = Str(errors[name])

\* the getters were read on a form whose y fails notUndefinedWithNoError and
\* whose x fails notBlank with the message E1
C15_Witness ==
    /\ lastOp = "read"
    /\ formValidator = 2
    /\ errors = [x |-> "E1", y |-> ""]
    /\ result.returned[1].invalid
    /\ result.returned[1].fields["y"].isInvalid
    /\ result.returned[1].fields["y"].getErrorMessage = JsUndefined
    /\ result.returned[1].fields["x"].getErrorMessage = Str("E1")

\* C16: after touchValidatedFields every field of the chain's
\* getValidatedFields is in the touched sequence, the fields touched before
\* keep their positions at the front, no field is listed twice, nothing
\* changes when all validated fields were touched already, and the form value
\* is left alone.
C16_TouchValidatedFields ==
    [][TouchValidatedFields =>
        /\ \A i \in 1..Len(validatedFieldsRef) : includes(stTouched', validatedFieldsRef[i])
        /\ IsPrefix(stTouched, stTouched')
        /\ NoDuplicates(stTouched')
        /\ (\A i \in 1..Len(validatedFieldsRef) : includes(stTouched, validatedFieldsRef[i]))
              => stTouched' = stTouched
        /\ stValue' = stValue]_vars

C18_NotUndefinedAlone ==
    formValidator = 4 =>
        /\ \A formValue \in FormValues :
              getFieldErrors(nodes, formValidator, formValue, errors)
                  = IF formValue["y"] = JsUndefined
                    THEN MapSet(EmptyMap, "y", "E2")
                    ELSE EmptyMap
        /\ isInvalid("y") <=> value["y"] = JsUndefined
        /\ getErrorMessage("y") = Str("E2") <=> value["y"] = JsUndefined
        /\ value["y"] # JsUndefined => getErrorMessage("y") = JsUndefined

\* with notUndefined('y', 'E2') alone, y was set to undefined, the form
\* rendered again and the accessor of y read: invalid, with the message E2
C18_Witness ==
    /\ lastOp = "read"
    /\ formValidator = 4
    /\ initialValue["y"] # JsUndefined
    /\ value["y"] = JsUndefined
    /\ errors = MapSet(EmptyMap, "y", "E2")
    /\ result.returned[1].fields["y"].isInvalid
    /\ result.returned[1].fields["y"].getErrorMessage = Str("E2")

\* C20: on a state object that shows the current state, untouched is true
\* exactly when setValue was invoked on no field since the last reset, and a
\* field's isTouched() is true exactly when setValue was invoked on it since
\* the last reset.
C20_TouchedIffSetSinceReset ==
    (value = stValue /\ touchedFields = stTouched) =>
        /\ untouched <=> setSinceReset = {}
        /\ \A name \in Fields : isTouched(name) <=> name \in setSinceReset

(***************************************************************************)
(* Claims about setValue.                                                  *)
(***************************************************************************)
\* C21: setValue(v) on field f leaves a form value that equals the latest
\* prior form value on every field other than f and holds v at f; when v
\* equals the latest value of f the updater returns the object it was given
\* and the form value is not replaced, and otherwise a new object is stored.
C21_SetValueFrame ==
    [][\A name \in Fields : \A fieldValue \in ValuesOf(name) :
        SetValue(name, fieldValue)
            => /\ stValue'[name] = fieldValue
               /\ \A other \in Fields \ {name} : stValue'[other] = stValue[other]
               /\ fieldValue = stValue[name] => ~replaced' /\ stValue' = stValue
               /\ fieldValue # stValue[name] => replaced']_vars

\* a setValue with the value the field already holds, after an earlier one
\* that changed it, and no render since
C21_Witness ==
    /\ lastOp = "setValue"
    /\ lastArgs = <<"x", Str(<<"a">>)>>
    /\ ~replaced
    /\ stValue.x = Str(<<"a">>)
    /\ value.x # Str(<<"a">>)

\* C22: two setValue calls on distinct fields through accessors of the same
\* projection both take effect: after the second call the form value holds
\* the first call's value at its field and the second call's value at its
\* field, whether or not a render happened in between.
C22_BothSetValuesTakeEffect ==
    [][\A name \in Fields : \A fieldValue \in ValuesOf(name) :
        (/\ lastOp = "setValue"
         /\ lastArgs[1] # name
         /\ SetValue(name, fieldValue))
            => /\ stValue'[lastArgs[1]] = lastArgs[2]
               /\ stValue'[name] = fieldValue]_vars

\* both calls were made on a projection whose snapshot holds neither value
C22_Witness ==
    /\ lastOp = "setValue"
    /\ lastArgs[1] = "y"
    /\ setSinceReset = {"x", "y"}
    /\ value = initialValue
    /\ touchedFields = <<>>
    /\ stValue.x # value.x
    /\ stValue.y # value.y

(***************************************************************************)
(* Claims about the merge a when-block makes.                              *)
(***************************************************************************)
\* C23: for a Conditional node whose predicate holds, a field with an error
\* from the parent chain keeps the parent's message even if the nested chain
\* fails on it too; a nested error is merged in exactly for the fields absent
\* from the parent's error map; and if every field the nested chain validates
\* already has a parent error, the parent's map is returned. The validated
\* fields of the node are the parent's fields followed by the nested chain's
\* fields not among them, and no form value enters that.
C23_ConditionalMerge ==
    \A ref \in Refs(nodes) : (ref # 0 /\ nodes[ref].kind = "conditional") =>
        LET node == nodes[ref]
            parentFields == getValidatedFields(nodes, node.parent)
            nestedFields == getValidatedFields(nodes, node.conditionalValidator)
        IN  /\ getValidatedFields(nodes, ref)
                  = parentFields \o SelectSeq(nestedFields,
                                              LAMBDA field : ~includes(parentFields, field))
            /\ \A formValue \in FormValues : Predicate(node.predicate, formValue) =>
                  LET parentErrors == getFieldErrors(nodes, node.parent, formValue, errors)
                      nestedErrors ==
                          getFieldErrors(nodes, node.conditionalValidator, formValue, errors)
                      fieldErrors == getFieldErrors(nodes, ref, formValue, errors)
                  IN  /\ \A field \in keysOf(parentErrors) :
                            /\ field \in keysOf(fieldErrors)
                            /\ fieldErrors[field] = parentErrors[field]
                      /\ \A field \in Fields \ keysOf(parentErrors) :
                            /\ field \in keysOf(fieldErrors) <=> field \in keysOf(nestedErrors)
                            /\ field \in keysOf(nestedErrors) =>
                                  fieldErrors[field] = nestedErrors[field]
                      /\ (\A i \in 1..Len(nestedFields) : nestedFields[i] \in keysOf(parentErrors))
                            => fieldErrors = parentErrors

\* a when-block was evaluated with its predicate true on a value on which the
\* parent chain and the nested chain fail on the same field with different
\* messages
C23_Witness ==
    \E ref \in Refs(nodes) :
        /\ ref # 0
        /\ nodes[ref].kind = "conditional"
        /\ \E formValue \in FormValues :
              LET parentErrors == getFieldErrors(nodes, nodes[ref].parent, formValue, EmptyMap)
                  nestedErrors ==
                      getFieldErrors(nodes, nodes[ref].conditionalValidator, formValue, EmptyMap)
              IN  /\ Predicate(nodes[ref].predicate, formValue)
                  /\ "x" \in keysOf(parentErrors)
                  /\ "x" \in keysOf(nestedErrors)
                  /\ parentErrors["x"] # nestedErrors["x"]
                  /\ errors = getFieldErrors(nodes, ref, formValue, EmptyMap)
                  /\ errors["x"] = parentErrors["x"]

\* C25: getFieldErrors and isFieldValid agree: for every chain of field rules
\* and nested when-blocks, every form value and every field, the error map
\* has an entry for the field iff isFieldValid is false for it, and every key
\* of the error map is one of the chain's validated fields.
C25_ErrorsAgreeWithIsFieldValid ==
    \A ref \in Refs(nodes) : \A formValue \in FormValues :
        LET fieldErrors == getFieldErrors(nodes, ref, formValue, errors)
            validatedFields == getValidatedFields(nodes, ref)
        IN  \A field \in Fields :
                /\ field \in keysOf(fieldErrors) <=> ~isFieldValid(nodes, ref, field, formValue)
                /\ field \in keysOf(fieldErrors) => includes(validatedFields, field)

\* a when-block nested in a when-block was evaluated: once on a value whose
\* predicate holds and whose x fails the nested rule, and the heap also has a
\* value whose predicate is false on which the same field is valid
C25_Witness ==
    \E ref \in Refs(nodes) :
        /\ ref # 0
        /\ nodes[ref].kind = "conditional"
        /\ nodes[ref].conditionalValidator # 0
        /\ nodes[nodes[ref].conditionalValidator].kind = "conditional"
        /\ \E formValue \in FormValues :
              /\ Predicate(nodes[ref].predicate, formValue)
              /\ errors = getFieldErrors(nodes, ref, formValue, EmptyMap)
              /\ "x" \in keysOf(errors)
              /\ ~isFieldValid(nodes, ref, "x", formValue)
        /\ \E formValue \in FormValues :
              /\ ~Predicate(nodes[ref].predicate, formValue)
              /\ isFieldValid(nodes, ref, "x", formValue)
              /\ "x" \notin keysOf(getFieldErrors(nodes, ref, formValue, EmptyMap))

(***************************************************************************)
(* Claims about adapters of adapters.                                      *)
(***************************************************************************)
\* the status getters, markAsTouched and setValue of the adapter that the map
\* calls ms yield, against the accessor of the projection: the getters return
\* what the accessor's return, markAsTouched stores what the accessor's
\* stores, and setValue(x) stores what the accessor's setValue(g1(g2(x))) stores
AdapterStatusAndSetValue(name, ms) ==
    /\ AdapterReadStatus(name, ms) =>
            result' = Returned([isTouched |-> isTouched(name),
                                isInvalid |-> isInvalid(name),
                                isValid |-> isValid(name),
                                isShowError |-> isShowError(name),
                                getErrorMessage |-> getErrorMessage(name)])
    /\ AdapterMarkAsTouched(name, ms) =>
            /\ stTouched' = touch(touchedFields, stTouched, name)
            /\ stValue' = stValue
            /\ setSinceReset' = setSinceReset
    /\ (lastOp' = "adapterSetValue" /\ AdapterSetValue(name, ms, lastArgs'[3])) =>
            LET mappedValue == lastArgs'[3]
                fieldValue == IF Len(ms) = 1
                              THEN inverseMapper(ms[1], mappedValue)
                              ELSE inverseMapper(ms[1], inverseMapper(ms[2], mappedValue))
            IN  /\ stValue' = setValueUpdater(stValue, name, fieldValue)
                /\ stTouched' = touch(touchedFields, stTouched, name)

\* C24 as stated: an adapter, and an adapter of an adapter, returns for
\* isTouched, isInvalid, isValid, isShowError and getErrorMessage what the
\* accessor returns, its markAsTouched has the effect of the accessor's, and
\* for map(f1,g1).map(f2,g2) getValue() returns f2(f1(v)) and setValue(x)
\* calls the accessor's setValue with g1(g2(x)).
C24_AdapterTransparent ==
    [][lastOp' # "init" /\ lastArgs' # <<>> =>
        LET name == lastArgs'[1]
            ms == lastArgs'[2]
        IN  /\ AdapterStatusAndSetValue(name, ms)
            /\ AdapterGetValue(name, ms) =>
                    result' = Returned(IF Len(ms) = 1
                                       THEN mapper(ms[1], value[name])
                                       ELSE mapper(ms[2], mapper(ms[1], value[name])))]_vars

\* C24, amended: as above, but for map(f1,g1).map(f2,g2) getValue() returns
\* f2(f1(v)) when f1(v) is not a promise, and when f1(v) is a promise it
\* returns a promise that resolves to f2 of the value f1(v) resolves to.
C24_AdapterTransparentThroughPromise ==
    [][lastOp' # "init" /\ lastArgs' # <<>> =>
        LET name == lastArgs'[1]
            ms == lastArgs'[2]
        IN  /\ AdapterStatusAndSetValue(name, ms)
            /\ AdapterGetValue(name, ms) =>
                    LET mappedValue == mapper(ms[1], value[name])
                    IN  result' = Returned(IF Len(ms) = 1
                                           THEN mappedValue
                                           ELSE IF isPromise(mappedValue)
                                           THEN PromiseResolve(mapper(ms[2], mappedValue.v))
                                           ELSE mapper(ms[2], mappedValue))]_vars

\* getValue was called on map(async).map(emptyAsUndefined) of a field that
\* holds undefined, after a setValue through map(emptyAsUndefined).map(trimmed)
\* stored it, and returned a promise of the empty string
C24_Witness ==
    /\ lastOp = "adapterGetValue"
    /\ lastArgs = <<"x", <<"async", "emptyAsUndefined">>>>
    /\ setSinceReset = {"x"}
    /\ initialValue.x # JsUndefined
    /\ value.x = JsUndefined
    /\ result = Returned(PromiseResolve(Str(<<>>)))

(***************************************************************************)
(* Claims about showsAnyErrors.                                            *)
(***************************************************************************)
\* touchValidatedFields was called last, it has taken effect (the touched
\* sequence holds every validated field) and the projection was rebuilt
TouchValidatedFieldsTookEffect ==
    /\ lastOp = "touchValidatedFields"
    /\ value = stValue
    /\ touchedFields = stTouched
    /\ \A i \in 1..Len(validatedFieldsRef) : includes(touchedFields, validatedFieldsRef[i])

\* C26: after touchValidatedFields has taken effect (touched sequence
\* updated and projection rebuilt, no value change in between), every field
\* with an error-map entry has isShowError() true and showsAnyErrors equals
\* invalid; and in every snapshot showsAnyErrors is true iff some field has
\* an error entry and is in the touched sequence.
C26_ShowsAnyErrors ==
    /\ showsAnyErrors <=>
            \E name \in Fields : name \in keysOf(errors) /\ includes(touchedFields, name)
    /\ showsAnyErrors <=> \E name \in Fields : isShowError(name)
    /\ TouchValidatedFieldsTookEffect =>
            /\ \A name \in keysOf(errors) : isShowError(name)
            /\ showsAnyErrors = invalid

\* touchValidatedFields touched the fields of an untouched, invalid form and
\* the projection was rebuilt: the form shows errors
C26_Witness ==
    /\ TouchValidatedFieldsTookEffect
    /\ setSinceReset = {}
    /\ Len(touchedFields) = 2
    /\ invalid
    /\ showsAnyErrors

====
